---- MODULE Spec2Model ----
(***************************************************************************)
(* Model of src/api/validate-purchase.js: the purchase validation handler, *)
(* its process-wide order cache, and the two purchase validators.          *)
(*                                                                         *)
(* JavaScript runs each handler invocation to its next `await` without     *)
(* interruption, so one action is one synchronous stretch of the handler:  *)
(* Receive (entry up to the awaited validator), PicoSettles and            *)
(* SimulatedDelayElapses (the validator's continuation, the cache write,   *)
(* the sweep and the response).  Tick is the wall clock read by Date.now().*)
(***************************************************************************)
EXTENDS Integers, Sequences, FiniteSets, TLC

\* ------------------------------------------------------------------ bounds
NumReq == 2
MaxTicks == 2
MaxStamp == 2

Reqs == 1..NumReq

\* ------------------------------------------------------- JavaScript values
\* A value is its type tag and its String() conversion as a character
\* sequence (what a template literal or startsWith sees).
Str(s) == [t |-> "string", v |-> s]
Num(s) == [t |-> "number", v |-> s]
Undefined == [t |-> "undefined", v |-> <<"u","n","d","e","f","i","n","e","d">>]
Null == [t |-> "null", v |-> <<"n","u","l","l">>]

StringOf(x) == x.v

Truthy(x) ==
  /\ x.t \notin {"undefined", "null"}
  /\ ~(x.t = "string" /\ x.v = <<>>)
  /\ ~(x.t = "number" /\ x.v = <<"0">>)

startsWith(s, p) == Len(s) >= Len(p) /\ SubSeq(s, 1, Len(p)) = p

\* String literals of the source, as character sequences.
test_ == <<"t","e","s","t","_">>
simulated_purchase_token_ ==
  <<"s","i","m","u","l","a","t","e","d","_","p","u","r","c","h","a","s","e","_","t","o","k","e","n","_">>
pico == <<"p","i","c","o">>
native == <<"n","a","t","i","v","e">>
ECONNABORTED == "ECONNABORTED"

twentyFourHours == 24 * 60 * 60 * 1000
SimulatedDelay == 300

\* Messages: the literal (by an ASCII gloss of the source text) and the
\* interpolated part, if any.
Msg(id, detail) == [id |-> id, detail |-> detail]
NoDetail == Str(<<>>)

toISOString(t) == [iso |-> t]

generateRequestId(t, rnd) == [prefix |-> "req_", time |-> t, rand |-> rnd]

\* ------------------------------------------------------------------ state
VARIABLES
  now,          \* Date.now()
  ticks,        \* number of clock steps taken (bounded by MaxTicks)
  orderCache,   \* Map: orderKey -> [product_id, user_id, timestamp]
  pc,           \* per invocation: "idle", "awaitPico", "awaitSim", "done"
  req,          \* per invocation: [method, body]
  local,        \* per invocation: handler locals kept across the await
  res,          \* per invocation: [sent, statusCode, hasBody, body]
  calls,        \* per invocation: how often it ran each callee
  before,       \* per invocation: the invocations answered before it began
  fnArgs,       \* argument of a validator applied on its own
  fnResult      \* its outcome

vars == <<now, ticks, orderCache, pc, req, local, res, calls, before, fnArgs, fnResult>>

\* ------------------------------------------------------------- order cache
EmptyCache == [k \in {} |-> 0]

\* The lookup made with something that is never a key.
CacheHas_WrongKey(cache, key) == (key \o <<"_">>) \in DOMAIN cache

\* The lookup that also asks the entry to be at most 24 hours old.
CacheHas_Unexpired(cache, key) ==
  key \in DOMAIN cache /\ now - cache[key].timestamp <= twentyFourHours

\* orderCache.has(key)
CacheHas(cache, key) == key \in DOMAIN cache

\* orderCache.set(key, entry)
CacheSet(cache, key, entry) ==
  [k \in DOMAIN cache \cup {key} |-> IF k = key THEN entry ELSE cache[k]]

\* The sweep with its subtraction turned round, so that no age exceeds a day.
cleanupOldOrders_Reversed(cache, t) ==
  LET expired == {k \in DOMAIN cache : cache[k].timestamp - t > twentyFourHours}
  IN  [k \in DOMAIN cache \ expired |-> cache[k]]

\* The sweep that also removes an entry aged exactly 24 hours.
cleanupOldOrders_AtLeast(cache, t) ==
  LET expired == {k \in DOMAIN cache : t - cache[k].timestamp >= twentyFourHours}
  IN  [k \in DOMAIN cache \ expired |-> cache[k]]

\* cleanupOldOrders(), run at time t
cleanupOldOrders(cache, t) ==
  LET expired == {k \in DOMAIN cache : t - cache[k].timestamp > twentyFourHours}
  IN  [k \in DOMAIN cache \ expired |-> cache[k]]

\* `${user_id}_${purchase_token}`
OrderKey(user_id, purchase_token) ==
  StringOf(user_id) \o <<"_">> \o StringOf(purchase_token)

\* -------------------------------------------------------------- validators
ValidationResult(success, message, productId, t) ==
  [success |-> success,
   message |-> message,
   validated_product_id |-> productId,
   is_duplicate |-> FALSE,
   server_time |-> toISOString(t)]

NoResult == ValidationResult(FALSE, Msg("", NoDetail), Undefined, 0)

Returned(value) == [threw |-> FALSE, error |-> NoDetail, value |-> value]
Threw(message) == [threw |-> TRUE, error |-> message, value |-> NoResult]

\* The simulated validator accepting the "test" prefix without its underscore
\* and forgetting the "simulated_purchase_token_" prefix.
validateSimulatedPurchase_TestOnly(productId, purchaseToken, userId, t) ==
  IF purchaseToken.t # "string"
  THEN Threw(Str(<<"n","o","t","_","a","_","f","u","n","c","t","i","o","n">>))
  ELSE IF startsWith(purchaseToken.v, <<"t","e","s","t">>)
       THEN Returned(ValidationResult(TRUE, Msg("SIMULATED_OK", NoDetail), productId, t))
       ELSE Returned(ValidationResult(FALSE, Msg("SIMULATED_INVALID_TOKEN", NoDetail),
                                      productId, t))

\* validateSimulatedPurchase, from the point its delay has elapsed (time t).
\* startsWith exists on strings only: any other token type is a TypeError.
validateSimulatedPurchase(productId, purchaseToken, userId, t) ==
  IF purchaseToken.t # "string"
  THEN Threw(Str(<<"n","o","t","_","a","_","f","u","n","c","t","i","o","n">>))
  ELSE LET isValid == \/ startsWith(purchaseToken.v, simulated_purchase_token_)
                      \/ startsWith(purchaseToken.v, test_)
       IN  IF isValid
           THEN Returned(ValidationResult(TRUE, Msg("SIMULATED_OK", NoDetail),
                                          productId, t))
           ELSE Returned(ValidationResult(FALSE, Msg("SIMULATED_INVALID_TOKEN", NoDetail),
                                          productId, t))

\* How the awaited axios.post settles.  Resolved: a 2xx response whose body
\* is `data` (hasData = FALSE: an empty, falsy body).  Rejected: an error with
\* an optional code and an optional response.
Resolved(hasData, ret, msg) ==
  [kind |-> "resolved", hasData |-> hasData, ret |-> ret, msg |-> msg,
   code |-> "", hasResponse |-> TRUE, status |-> Num(<<"2","0","0">>)]
Rejected(code, hasResponse, status) ==
  [kind |-> "rejected", hasData |-> FALSE, ret |-> Undefined, msg |-> Undefined,
   code |-> code, hasResponse |-> hasResponse, status |-> status]

ErrorCodeText(ret) == Str(<<"c","o","d","e",":"," ">> \o StringOf(ret))

\* The try block comparing ret loosely (ret == 0), so that "0" passes.
picoTry_LooseRet(productId, settle, t) ==
  IF settle.kind = "rejected"
  THEN [threw |-> TRUE, error |-> settle, value |-> NoResult]
  ELSE IF settle.hasData /\ settle.ret.v = <<"0">>
       THEN Returned(ValidationResult(TRUE, Msg("PICO_OK", NoDetail), productId, t))
       ELSE Returned(ValidationResult(FALSE,
                       Msg("PICO_FAILED",
                           IF settle.hasData /\ Truthy(settle.msg)
                           THEN settle.msg
                           ELSE ErrorCodeText(IF settle.hasData THEN settle.ret
                                                                 ELSE Undefined)),
                       productId, t))

\* The try block of validatePicoPurchase, from the point axios.post has
\* settled (time t): a rejection is thrown into the catch block.
picoTry(productId, settle, t) ==
  IF settle.kind = "rejected"
  THEN [threw |-> TRUE, error |-> settle, value |-> NoResult]
  ELSE IF settle.hasData /\ settle.ret = Num(<<"0">>)
       THEN Returned(ValidationResult(TRUE, Msg("PICO_OK", NoDetail), productId, t))
       ELSE Returned(ValidationResult(FALSE,
                       Msg("PICO_FAILED",
                           IF settle.hasData /\ Truthy(settle.msg)
                           THEN settle.msg
                           ELSE ErrorCodeText(IF settle.hasData THEN settle.ret
                                                                 ELSE Undefined)),
                       productId, t))

\* The catch block that looks at error.response before error.code.
picoCatch_ResponseFirst(productId, error, t) ==
  LET errorMessage ==
        IF error.hasResponse
        THEN Msg("PICO_SERVER_ERROR", error.status)
        ELSE IF error.code = ECONNABORTED
             THEN Msg("PICO_TIMEOUT", NoDetail)
             ELSE Msg("PICO_UNAVAILABLE", NoDetail)
  IN  Returned(ValidationResult(FALSE, errorMessage, productId, t))

\* The catch block of validatePicoPurchase.
picoCatch(productId, error, t) ==
  LET errorMessage ==
        IF error.code = ECONNABORTED
        THEN Msg("PICO_TIMEOUT", NoDetail)
        ELSE IF error.hasResponse
             THEN Msg("PICO_SERVER_ERROR", error.status)
             ELSE Msg("PICO_UNAVAILABLE", NoDetail)
  IN  Returned(ValidationResult(FALSE, errorMessage, productId, t))

validatePicoPurchase(productId, purchaseToken, userId, settle, t) ==
  LET attempt == picoTry(productId, settle, t)
  IN  IF attempt.threw THEN picoCatch(productId, attempt.error, t) ELSE attempt

\* ------------------------------------------------------------------ inputs
Methods == {"POST", "OPTIONS", "GET"}

p1 == Str(<<"p","1">>)
p2 == Str(<<"p","2">>)
u == Str(<<"u">>)
u_test == Str(<<"u","_","t","e","s","t">>)
test_a == Str(test_ \o <<"a">>)
a == Str(<<"a">>)
n123 == Num(<<"1","2","3">>)

\* req.body: absent, or an object whose absent fields read as undefined.
NoBody == [t |-> "undefined"]
Body(product_id, purchase_token, user_id, platform) ==
  [t |-> "object", product_id |-> product_id, purchase_token |-> purchase_token,
   user_id |-> user_id, platform |-> platform]

\* The (user_id, purchase_token) pairs submitted.  The keys of (u, test_a)
\* and (u_test, a) are the same string.
Pairs == {<<u, test_a>>, <<u_test, a>>, <<u, a>>}

\* Bodies carrying every required field.
FullBodies ==
  {Body(p, pair[2], pair[1], f) :
     p \in {p1, p2}, pair \in Pairs, f \in {Undefined, Str(pico), Str(native)}}
  \cup {Body(p1, n123, u, Str(pico)), Body(p1, n123, u, Str(native)),
        Body(p1, test_a, u, Null)}

\* Bodies lacking a required field, or carrying a falsy one.
PartialBodies ==
  {Body(Undefined, test_a, u, Str(native)),
   Body(p1, Undefined, u, Str(pico)),
   Body(p1, test_a, Undefined, Undefined),
   Body(p1, Str(<<>>), u, Str(native)),
   Body(p1, test_a, Null, Str(pico))}

Bodies == {NoBody} \cup FullBodies \cup PartialBodies

\* The requests that arrive: any POST, and other methods with and without a body.
Requests ==
  {[method |-> "POST", body |-> b] : b \in Bodies} \cup
  {[method |-> m, body |-> b] :
     m \in Methods \ {"POST"}, b \in {NoBody, Body(p1, test_a, u, Str(native))}}

\* The requests that arrive while the wall clock is watched.
ClockRequests ==
  {[method |-> "POST", body |-> Body(p1, test_a, w, Str(native))] : w \in {u, u_test}}
  \cup {[method |-> "POST", body |-> Body(p1, a, u, Str(pico))]}

\* One request for each way through the handler: OPTIONS, another method, a
\* body that is absent, a missing field, the simulated validator accepting,
\* refusing and throwing, and the outbound call.
LiveRequests ==
  {[method |-> "OPTIONS", body |-> NoBody],
   [method |-> "GET", body |-> NoBody],
   [method |-> "POST", body |-> NoBody],
   [method |-> "POST", body |-> Body(p1, Undefined, u, Str(pico))],
   [method |-> "POST", body |-> Body(p1, test_a, u, Str(native))],
   [method |-> "POST", body |-> Body(p1, a, u, Str(native))],
   [method |-> "POST", body |-> Body(p1, n123, u, Str(native))],
   [method |-> "POST", body |-> Body(p1, test_a, u, Undefined)]}

RandomSuffixes == {"k3x9"}

\* How the outbound call settles, in the handler's runs.
Settlements ==
  {Resolved(TRUE, Num(<<"0">>), Undefined),
   Rejected(ECONNABORTED, FALSE, Undefined)}

\* ----------------------------------------------------------------- handler
NoReq == [method |-> "", body |-> NoBody]
NoLocal == [startTime |-> 0, requestId |-> generateRequestId(0, ""),
            product_id |-> Undefined, purchase_token |-> Undefined,
            user_id |-> Undefined, orderKey |-> <<>>]
NoResponse == [sent |-> 0, statusCode |-> 200, hasBody |-> FALSE, body |-> <<>>]
NoCalls == [has |-> 0, set |-> 0, sweep |-> 0, pico |-> 0, simulated |-> 0, outbound |-> 0]

\* res.status(code).json(body), res.json(body), res.status(code).end()
Send(response, statusCode, hasBody, body) ==
  [sent |-> response.sent + 1, statusCode |-> statusCode, hasBody |-> hasBody, body |-> body]

\* The catch block answering with status 500.
handlerCatch_Status500(response, errorMessage, requestId, t) ==
  Send(response, 500, TRUE,
       [success |-> FALSE,
        message |-> Msg("INTERNAL_ERROR", errorMessage),
        request_id |-> requestId,
        server_time |-> toISOString(t)])

\* The catch block that sends nothing.
handlerCatch_Dropped(response, errorMessage, requestId, t) == response

\* The catch block of handler.
handlerCatch(response, errorMessage, requestId, t) ==
  Send(response, response.statusCode, TRUE,
       [success |-> FALSE,
        message |-> Msg("INTERNAL_ERROR", errorMessage),
        request_id |-> requestId,
        server_time |-> toISOString(t)])

\* The 405 answer sent without its status.
methodNotAllowed_NoStatus(response, requestId) ==
  Send(response, response.statusCode, TRUE,
       [success |-> FALSE,
        message |-> Msg("METHOD_NOT_ALLOWED", NoDetail),
        request_id |-> requestId])

\* res.status(405).json({...})
methodNotAllowed(response, requestId) ==
  Send(response, 405, TRUE,
       [success |-> FALSE,
        message |-> Msg("METHOD_NOT_ALLOWED", NoDetail),
        request_id |-> requestId])

\* The default platform taken to be 'native'.
platformOf_DefaultNative(body) ==
  IF body.platform.t = "undefined" THEN Str(native) ELSE body.platform

\* const { ..., platform = 'pico', ... } = req.body
platformOf(body) ==
  IF body.platform.t = "undefined" THEN Str(pico) ELSE body.platform

\* The parameter check without user_id.
missingParameters_NoUserId(product_id, purchase_token, user_id) ==
  ~Truthy(product_id) \/ ~Truthy(purchase_token)

\* !product_id || !purchase_token || !user_id
missingParameters(product_id, purchase_token, user_id) ==
  ~Truthy(product_id) \/ ~Truthy(purchase_token) \/ ~Truthy(user_id)

missingResponse(response, requestId) ==
  Send(response, response.statusCode, TRUE,
       [success |-> FALSE,
        message |-> Msg("MISSING_PARAMETERS", NoDetail),
        request_id |-> requestId])

duplicateResponse(response, product_id, requestId, t) ==
  Send(response, response.statusCode, TRUE,
       [success |-> TRUE,
        message |-> Msg("DUPLICATE_ORDER", NoDetail),
        validated_product_id |-> product_id,
        is_duplicate |-> TRUE,
        request_id |-> requestId,
        server_time |-> toISOString(t)])

\* The live validator chosen for everything but 'native'.
usesPico_UnlessNative(platform) == platform # Str(native)

\* platform === 'pico'
usesPico(platform) == platform = Str(pico)

\* res.json({...validationResult, request_id, processing_time})
resultResponse(response, validationResult, requestId, processingTime) ==
  Send(response, response.statusCode, TRUE,
       [request_id |-> requestId, processing_time |-> processingTime]
         @@ validationResult)

\* The handler putting its entry into the cache before it awaits the validator.
handler_ReservesKey(r, method, body, rnd) ==
  LET requestId == generateRequestId(now, rnd)
      Finish(response, c) ==
        /\ pc' = [pc EXCEPT ![r] = "done"]
        /\ res' = [res EXCEPT ![r] = response]
        /\ calls' = [calls EXCEPT ![r] = c]
        /\ UNCHANGED <<local, orderCache>>
      Await(at, c, l) ==
        /\ pc' = [pc EXCEPT ![r] = at]
        /\ calls' = [calls EXCEPT ![r] = c]
        /\ local' = [local EXCEPT ![r] = l]
        /\ UNCHANGED res
        /\ orderCache' = CacheSet(orderCache, l.orderKey,
                                  [product_id |-> l.product_id, user_id |-> l.user_id,
                                   timestamp |-> now])
  IN
  /\ req' = [req EXCEPT ![r] = [method |-> method, body |-> body]]
  /\ before' = [before EXCEPT ![r] = {q \in Reqs : pc[q] = "done"}]
  /\ UNCHANGED <<now, ticks, fnArgs, fnResult>>
  /\ IF method = "OPTIONS"
     THEN Finish(Send(res[r], 200, FALSE, <<>>), NoCalls)
     ELSE IF method # "POST"
     THEN Finish(methodNotAllowed(res[r], requestId), NoCalls)
     ELSE IF body.t = "undefined"
     THEN \* destructuring undefined throws a TypeError
          Finish(handlerCatch(res[r],
                              Str(<<"c","a","n","n","o","t","_","d","e","s","t","r","u","c","t","u","r","e">>),
                              requestId, now),
                 NoCalls)
     ELSE
       LET product_id == body.product_id
           purchase_token == body.purchase_token
           user_id == body.user_id
           platform == platformOf(body)
       IN
       IF missingParameters(product_id, purchase_token, user_id)
       THEN Finish(missingResponse(res[r], requestId), NoCalls)
       ELSE
         LET orderKey == OrderKey(user_id, purchase_token)
             l == [startTime |-> now, requestId |-> requestId,
                   product_id |-> product_id, purchase_token |-> purchase_token,
                   user_id |-> user_id, orderKey |-> orderKey]
         IN
         IF CacheHas(orderCache, orderKey)
         THEN Finish(duplicateResponse(res[r], product_id, requestId, now),
                     [NoCalls EXCEPT !.has = 1])
         ELSE IF usesPico(platform)
         THEN Await("awaitPico", [NoCalls EXCEPT !.has = 1, !.pico = 1, !.outbound = 1], l)
         ELSE Await("awaitSim", [NoCalls EXCEPT !.has = 1, !.simulated = 1], l)

\* handler, from its entry to its first await or to its response.
handler(r, method, body, rnd) ==
  LET requestId == generateRequestId(now, rnd)
      Finish(response, c) ==
        /\ pc' = [pc EXCEPT ![r] = "done"]
        /\ res' = [res EXCEPT ![r] = response]
        /\ calls' = [calls EXCEPT ![r] = c]
        /\ UNCHANGED local
      Await(at, c, l) ==
        /\ pc' = [pc EXCEPT ![r] = at]
        /\ calls' = [calls EXCEPT ![r] = c]
        /\ local' = [local EXCEPT ![r] = l]
        /\ UNCHANGED res
  IN
  /\ req' = [req EXCEPT ![r] = [method |-> method, body |-> body]]
  /\ before' = [before EXCEPT ![r] = {q \in Reqs : pc[q] = "done"}]
  /\ UNCHANGED <<now, ticks, orderCache, fnArgs, fnResult>>
  /\ IF method = "OPTIONS"
     THEN Finish(Send(res[r], 200, FALSE, <<>>), NoCalls)
     ELSE IF method # "POST"
     THEN Finish(methodNotAllowed(res[r], requestId), NoCalls)
     ELSE IF body.t = "undefined"
     THEN \* destructuring undefined throws a TypeError
          Finish(handlerCatch(res[r],
                              Str(<<"c","a","n","n","o","t","_","d","e","s","t","r","u","c","t","u","r","e">>),
                              requestId, now),
                 NoCalls)
     ELSE
       LET product_id == body.product_id
           purchase_token == body.purchase_token
           user_id == body.user_id
           platform == platformOf(body)
       IN
       IF missingParameters(product_id, purchase_token, user_id)
       THEN Finish(missingResponse(res[r], requestId), NoCalls)
       ELSE
         LET orderKey == OrderKey(user_id, purchase_token)
             l == [startTime |-> now, requestId |-> requestId,
                   product_id |-> product_id, purchase_token |-> purchase_token,
                   user_id |-> user_id, orderKey |-> orderKey]
         IN
         IF CacheHas(orderCache, orderKey)
         THEN Finish(duplicateResponse(res[r], product_id, requestId, now),
                     [NoCalls EXCEPT !.has = 1])
         ELSE IF usesPico(platform)
         THEN Await("awaitPico", [NoCalls EXCEPT !.has = 1, !.pico = 1, !.outbound = 1], l)
         ELSE Await("awaitSim", [NoCalls EXCEPT !.has = 1, !.simulated = 1], l)

\* The recording condition with its negation lost.
recordsOrder_OnlyDuplicates(validationResult) ==
  validationResult.success /\ validationResult.is_duplicate

\* The recording condition without its test of success.
recordsOrder_AnyResult(validationResult) ==
  ~validationResult.is_duplicate

\* validationResult.success && !validationResult.is_duplicate
recordsOrder(validationResult) ==
  validationResult.success /\ ~validationResult.is_duplicate

\* handler, from the return of the awaited validator to its response.
handlerResume(r, outcome, t) ==
  /\ pc' = [pc EXCEPT ![r] = "done"]
  /\ local' = [local EXCEPT ![r] = NoLocal]
  /\ UNCHANGED <<req, before, ticks, fnArgs, fnResult>>
  /\ IF outcome.threw
     THEN /\ res' = [res EXCEPT ![r] = handlerCatch(res[r], outcome.error,
                                                    local[r].requestId, t)]
          /\ UNCHANGED <<orderCache, calls>>
     ELSE
       LET validationResult == outcome.value
           processingTime == t - local[r].startTime
       IN
       /\ IF recordsOrder(validationResult)
          THEN /\ orderCache' =
                    cleanupOldOrders(
                      CacheSet(orderCache, local[r].orderKey,
                               [product_id |-> local[r].product_id,
                                user_id |-> local[r].user_id,
                                timestamp |-> t]),
                      t)
               /\ calls' = [calls EXCEPT ![r].set = @ + 1, ![r].sweep = @ + 1]
          ELSE UNCHANGED <<orderCache, calls>>
       /\ res' = [res EXCEPT ![r] =
                    resultResponse(res[r], validationResult, local[r].requestId,
                                   processingTime)]

\* ----------------------------------------------------------------- actions
\* A request arrives; invocations are numbered in order of arrival.
Receive(r, arriving) ==
  /\ pc[r] = "idle"
  /\ IF r = 1 THEN TRUE ELSE pc[r - 1] # "idle"
  /\ \E request \in arriving, rnd \in RandomSuffixes :
       handler(r, request.method, request.body, rnd)

\* The outbound axios.post settles.
PicoSettles(r) ==
  /\ pc[r] = "awaitPico"
  /\ UNCHANGED now
  /\ \E settle \in Settlements :
       handlerResume(r, validatePicoPurchase(local[r].product_id, local[r].purchase_token,
                                             local[r].user_id, settle, now),
                     now)

\* The simulated validator's timer fires, no earlier than its delay.
SimulatedDelayElapses(r) ==
  /\ pc[r] = "awaitSim"
  /\ LET t == IF now < local[r].startTime + SimulatedDelay
              THEN local[r].startTime + SimulatedDelay
              ELSE now
     IN  /\ now' = t
         /\ handlerResume(r, validateSimulatedPurchase(local[r].product_id,
                                                       local[r].purchase_token,
                                                       local[r].user_id, t),
                          t)

\* The wall clock advances.
Tick ==
  /\ ticks < MaxTicks
  /\ \E d \in {1, twentyFourHours} : now' = now + d
  /\ ticks' = ticks + 1
  /\ UNCHANGED <<orderCache, pc, req, local, res, calls, before, fnArgs, fnResult>>

NoArgs == [fn |-> ""]
NoOutcome == [threw |-> FALSE, error |-> NoDetail, value |-> NoResult, returned |-> FALSE]

Init ==
  /\ now = 0
  /\ ticks = 0
  /\ orderCache = EmptyCache
  /\ pc = [r \in Reqs |-> "idle"]
  /\ req = [r \in Reqs |-> NoReq]
  /\ local = [r \in Reqs |-> NoLocal]
  /\ res = [r \in Reqs |-> NoResponse]
  /\ calls = [r \in Reqs |-> NoCalls]
  /\ before = [r \in Reqs |-> {}]
  /\ fnArgs = NoArgs
  /\ fnResult = NoOutcome

\* The handler while no time passes but the simulated validator's delay.
Next ==
  \/ \E r \in Reqs : Receive(r, Requests)
  \/ \E r \in Reqs : PicoSettles(r)
  \/ \E r \in Reqs : SimulatedDelayElapses(r)

Spec == Init /\ [][Next]_vars

\* The handler under a wall clock that advances between its steps.
NextClock ==
  \/ \E r \in Reqs : Receive(r, ClockRequests)
  \/ \E r \in Reqs : PicoSettles(r)
  \/ \E r \in Reqs : SimulatedDelayElapses(r)
  \/ Tick

SpecClock == Init /\ [][NextClock]_vars

\* The handler when what it awaits does settle: the outbound call resolves or
\* rejects, at the latest by its timeout, and the simulated delay elapses.
NextLive ==
  \/ \E r \in Reqs : Receive(r, LiveRequests)
  \/ \E r \in Reqs : PicoSettles(r)
  \/ \E r \in Reqs : SimulatedDelayElapses(r)

Settling ==
  \A r \in Reqs : WF_vars(PicoSettles(r)) /\ WF_vars(SimulatedDelayElapses(r))

SpecLive == Init /\ [][NextLive]_vars /\ Settling

\* ------------------------------------------- the validators on their own
\* Tokens around the two accepted prefixes: exact, extended, truncated,
\* misplaced, and differing in case.
SimulatedTokens ==
  {Str(test_), Str(test_ \o <<"a">>), Str(<<"t","e","s","t">>),
   Str(<<"t","e","s","t","a">>), Str(<<"T","e","s","t","_">>),
   Str(<<"a">> \o test_), Str(<<"a">>), Str(<<"_">>),
   Str(simulated_purchase_token_), Str(simulated_purchase_token_ \o <<"1">>),
   Str(SubSeq(simulated_purchase_token_, 1, 24)),
   Str(SubSeq(simulated_purchase_token_, 1, 10)),
   Str(<<"x">> \o simulated_purchase_token_)}

\* Every way the outbound call settles.
AllSettlements ==
  {Resolved(TRUE, ret, msg) :
     ret \in {Num(<<"0">>), Num(<<"7">>), Str(<<"0">>), Undefined},
     msg \in {Undefined, Str(<<>>), Str(<<"e","x","p","i","r","e","d">>)}}
  \cup {Resolved(FALSE, Undefined, Undefined)}
  \cup {Rejected(code, FALSE, Undefined) : code \in {ECONNABORTED, "ECONNREFUSED", ""}}
  \cup {Rejected(code, TRUE, status) :
          code \in {ECONNABORTED, "ERR_BAD_RESPONSE", ""},
          status \in {Num(<<"5","0","0">>), Num(<<"4","0","4">>)}}

NoSettle == Rejected("", FALSE, Undefined)

InitValidators ==
  /\ now = 0
  /\ ticks = 0
  /\ orderCache = EmptyCache
  /\ pc = [r \in Reqs |-> "idle"]
  /\ req = [r \in Reqs |-> NoReq]
  /\ local = [r \in Reqs |-> NoLocal]
  /\ res = [r \in Reqs |-> NoResponse]
  /\ calls = [r \in Reqs |-> NoCalls]
  /\ before = [r \in Reqs |-> {}]
  /\ fnResult = NoOutcome
  /\ \/ fnArgs \in {[fn |-> "validateSimulatedPurchase", productId |-> p, purchaseToken |-> k,
                     userId |-> w, settle |-> NoSettle, t |-> t] :
                      p \in {p1, p2}, k \in SimulatedTokens \cup {n123}, w \in {u, u_test},
                      t \in {0, twentyFourHours}}
     \/ fnArgs \in {[fn |-> "validatePicoPurchase", productId |-> p, purchaseToken |-> k,
                     userId |-> u, settle |-> settle, t |-> t] :
                      p \in {p1, p2}, k \in {test_a, n123}, settle \in AllSettlements,
                      t \in {0, twentyFourHours}}

CallSimulated ==
  /\ fnArgs.fn = "validateSimulatedPurchase"
  /\ ~fnResult.returned
  /\ fnResult' = [returned |-> TRUE] @@
                 validateSimulatedPurchase(fnArgs.productId, fnArgs.purchaseToken,
                                           fnArgs.userId, fnArgs.t)
  /\ UNCHANGED <<now, ticks, orderCache, pc, req, local, res, calls, before, fnArgs>>

CallPico ==
  /\ fnArgs.fn = "validatePicoPurchase"
  /\ ~fnResult.returned
  /\ fnResult' = [returned |-> TRUE] @@
                 validatePicoPurchase(fnArgs.productId, fnArgs.purchaseToken,
                                      fnArgs.userId, fnArgs.settle, fnArgs.t)
  /\ UNCHANGED <<now, ticks, orderCache, pc, req, local, res, calls, before, fnArgs>>

NextValidators == CallSimulated \/ CallPico

SpecValidators == InitValidators /\ [][NextValidators]_vars

\* cleanupOldOrders on its own: the caches it may find and the times it may
\* run at, entries inserted in the first milliseconds and the sweep run a
\* millisecond later or around 24 hours later.
SweepPairs == {<<u, test_a>>, <<u, a>>, <<u_test, test_a>>}
SweepStamps == 0..MaxStamp
SweepTimes == {1} \cup {twentyFourHours + d : d \in SweepStamps}

CacheOf(pairs, stamp) ==
  [k \in {OrderKey(pair[1], pair[2]) : pair \in pairs} |->
     LET pair == CHOOSE q \in pairs : OrderKey(q[1], q[2]) = k
     IN  [product_id |-> p1, user_id |-> pair[1], timestamp |-> stamp[pair]]]

SweepCaches ==
  {CacheOf(pairs, stamp) : pairs \in SUBSET SweepPairs, stamp \in [SweepPairs -> SweepStamps]}

InitSweep ==
  /\ ticks = 0
  /\ pc = [r \in Reqs |-> "idle"]
  /\ req = [r \in Reqs |-> NoReq]
  /\ local = [r \in Reqs |-> NoLocal]
  /\ res = [r \in Reqs |-> NoResponse]
  /\ calls = [r \in Reqs |-> NoCalls]
  /\ before = [r \in Reqs |-> {}]
  /\ fnResult = NoOutcome
  /\ now \in SweepTimes
  /\ orderCache \in {cache \in SweepCaches : \A k \in DOMAIN cache : cache[k].timestamp <= now}
  /\ fnArgs = [fn |-> "cleanupOldOrders", cache |-> orderCache, t |-> now]

CallCleanup ==
  /\ fnArgs.fn = "cleanupOldOrders"
  /\ ~fnResult.returned
  /\ orderCache' = cleanupOldOrders(orderCache, now)
  /\ fnResult' = [fnResult EXCEPT !.returned = TRUE]
  /\ UNCHANGED <<now, ticks, pc, req, local, res, calls, before, fnArgs>>

NextSweep == CallCleanup

SpecSweep == InitSweep /\ [][NextSweep]_vars

\* ================================================================ properties
Done(r) == pc[r] = "done"
IsPost(r) == pc[r] # "idle" /\ req[r].method = "POST"
HasFields(r) == IsPost(r) /\ req[r].body.t = "object"

\* The request carries every required field (none absent, none falsy).
Complete(r) ==
  /\ HasFields(r)
  /\ Truthy(req[r].body.product_id)
  /\ Truthy(req[r].body.purchase_token)
  /\ Truthy(req[r].body.user_id)

SamePair(i, j) ==
  /\ HasFields(i) /\ HasFields(j)
  /\ req[i].body.user_id = req[j].body.user_id
  /\ req[i].body.purchase_token = req[j].body.purchase_token

Answered(r) == Done(r) /\ res[r].hasBody
Succeeded(r) == Answered(r) /\ res[r].body.success
AnsweredDuplicate(r) == Succeeded(r) /\ res[r].body.is_duplicate
AnsweredFresh(r) == Succeeded(r) /\ ~res[r].body.is_duplicate

\* C1: when a request for a (user_id, purchase_token) pair has been answered
\* success=true, is_duplicate=false, every later request for the same pair
\* (begun after that answer) is answered success=true, is_duplicate=true with
\* the same validated_product_id, whatever product_id it carries.
C1_Idempotent ==
  \A i \in Reqs : \A j \in Reqs :
    (AnsweredFresh(i) /\ Done(j) /\ i \in before[j] /\ SamePair(i, j))
      => /\ AnsweredDuplicate(j)
         /\ res[j].body.validated_product_id = res[i].body.validated_product_id

\* C2: a dedup key is in the cache only for (user_id, purchase_token) pairs
\* that were themselves submitted and validated successfully, and a request is
\* answered is_duplicate=true only if its own pair was validated before it.
C2_KeyMeansThisPairValidated ==
  /\ \A w \in {u, u_test} : \A k \in {test_a, a, n123} :
       CacheHas(orderCache, OrderKey(w, k))
         => \E q \in Reqs : /\ AnsweredFresh(q)
                            /\ req[q].body.user_id = w
                            /\ req[q].body.purchase_token = k
  /\ \A j \in Reqs :
       AnsweredDuplicate(j)
         => \E i \in before[j] : AnsweredFresh(i) /\ SamePair(i, j)

\* C3: a POST request lacking product_id, purchase_token or user_id (absent or
\* empty, or with no body at all) is answered with status 200 and
\* success=false, runs neither validator and does not write to the cache.
C3_MissingParametersRejected ==
  \A r \in Reqs :
    (IsPost(r) /\ ~Complete(r))
      => /\ Answered(r)
         /\ res[r].statusCode = 200
         /\ res[r].body.success = FALSE
         /\ calls[r].pico = 0 /\ calls[r].simulated = 0 /\ calls[r].outbound = 0
         /\ calls[r].set = 0 /\ calls[r].sweep = 0

\* A field is absent, a field is empty, a field is null, and the body is absent.
C3_Witness ==
  \E r \in Reqs :
    /\ HasFields(r) /\ Done(r)
    /\ \/ req[r].body.purchase_token = Str(<<>>)
       \/ req[r].body.user_id = Undefined
       \/ req[r].body.product_id = Undefined
    /\ res[r].body.message.id = "MISSING_PARAMETERS"

\* C4: a request whose method is neither POST nor OPTIONS is answered with
\* status 405, success=false and a request_id, whatever its body, and neither
\* runs a validator nor touches the cache.
C4_MethodNotAllowed ==
  \A r \in Reqs :
    (pc[r] # "idle" /\ req[r].method \notin {"POST", "OPTIONS"})
      => /\ Answered(r)
         /\ res[r].sent = 1
         /\ res[r].statusCode = 405
         /\ res[r].body.success = FALSE
         /\ "request_id" \in DOMAIN res[r].body
         /\ calls[r] = NoCalls

\* A GET that carries a complete purchase body, while the cache is not empty.
C4_Witness ==
  \E r \in Reqs :
    /\ Done(r) /\ req[r].method = "GET" /\ req[r].body.t = "object"
    /\ res[r].statusCode = 405
    /\ DOMAIN orderCache # {}

\* The request got past the duplicate check: its key was not in the cache.
PastDuplicateCheck(r) == Complete(r) /\ ~AnsweredDuplicate(r)

\* C5: a complete POST request whose key is not in the cache runs exactly one
\* validator: validatePicoPurchase when its platform field is "pico",
\* validateSimulatedPurchase when it is any other value.
C5_OneValidatorByPlatform ==
  \A r \in Reqs :
    PastDuplicateCheck(r)
      => /\ calls[r].pico + calls[r].simulated = 1
         /\ req[r].body.platform = Str(pico)
              => calls[r].pico = 1
         /\ (req[r].body.platform # Undefined /\ req[r].body.platform # Str(pico))
              => calls[r].simulated = 1

\* Both validators have run, the simulated one for "native" and for null.
C5_Witness ==
  /\ \E r \in Reqs : PastDuplicateCheck(r) /\ req[r].body.platform = Str(pico)
                     /\ calls[r].pico = 1
  /\ \E r \in Reqs : PastDuplicateCheck(r) /\ req[r].body.platform \in {Str(native), Null}
                     /\ calls[r].simulated = 1

\* C6 as claimed: a POST request without a platform field goes to the
\* simulated validator and makes no outbound call.
C6_OmittedPlatformSimulated ==
  \A r \in Reqs :
    (PastDuplicateCheck(r) /\ req[r].body.platform = Undefined)
      => calls[r].simulated = 1 /\ calls[r].pico = 0 /\ calls[r].outbound = 0

\* C6 amended: a POST request without a platform field is handled as if its
\* platform were "pico": it goes to validatePicoPurchase, which makes the
\* outbound call, and never to the simulated validator.
C6_OmittedPlatformPico ==
  \A r \in Reqs :
    (PastDuplicateCheck(r) /\ req[r].body.platform = Undefined)
      => calls[r].pico = 1 /\ calls[r].outbound = 1 /\ calls[r].simulated = 0

C6_Witness ==
  \E r \in Reqs :
    /\ Done(r) /\ PastDuplicateCheck(r) /\ req[r].body.platform = Undefined
    /\ res[r].body.message.id = "PICO_OK"

\* C7: every response with a body carries a request_id and a processing_time.
C7_RequestIdAndProcessingTime ==
  \A r \in Reqs :
    Answered(r) => /\ "request_id" \in DOMAIN res[r].body
                   /\ "processing_time" \in DOMAIN res[r].body

\* The faults of the claim: no body to destructure, or a token that is no
\* string reaching the simulated validator.
Faulted(r) ==
  \/ IsPost(r) /\ req[r].body.t = "undefined"
  \/ /\ Done(r) /\ PastDuplicateCheck(r)
     /\ calls[r].simulated = 1
     /\ req[r].body.purchase_token.t # "string"

\* C8: every POST request is answered exactly once with status 200; when a
\* fault was raised on its way the answer is success=false with the
\* internal-error message.
C8_FaultsAnsweredInBody ==
  \A r \in Reqs :
    /\ (IsPost(r) /\ Done(r)) => res[r].sent = 1 /\ res[r].statusCode = 200 /\ res[r].hasBody
    /\ Faulted(r) => /\ Answered(r)
                     /\ res[r].body.success = FALSE
                     /\ res[r].body.message.id = "INTERNAL_ERROR"

\* Both faults have happened.
C8_Witness ==
  /\ \E r \in Reqs : Done(r) /\ IsPost(r) /\ req[r].body.t = "undefined"
  /\ \E r \in Reqs : Done(r) /\ HasFields(r) /\ calls[r].simulated = 1
                     /\ req[r].body.purchase_token = n123
                     /\ res[r].body.message.id = "INTERNAL_ERROR"

\* The tokens of SimulatedTokens that begin with "test_" or with
\* "simulated_purchase_token_", written out.
AcceptedTokens ==
  {Str(<<"t","e","s","t","_">>),
   Str(<<"t","e","s","t","_","a">>),
   Str(<<"s","i","m","u","l","a","t","e","d","_","p","u","r","c","h","a","s","e","_","t","o","k","e","n","_">>),
   Str(<<"s","i","m","u","l","a","t","e","d","_","p","u","r","c","h","a","s","e","_","t","o","k","e","n","_","1">>)}

SimulatedReturned ==
  fnArgs.fn = "validateSimulatedPurchase" /\ fnResult.returned

\* C9: for a string token validateSimulatedPurchase returns success=true
\* exactly when the token starts with "test_" or "simulated_purchase_token_",
\* and otherwise success=false with the invalid-token message; either way
\* is_duplicate=false and validated_product_id is the product_id passed in.
C9_SimulatedAcceptsPrefixes ==
  (SimulatedReturned /\ fnArgs.purchaseToken.t = "string")
    => /\ ~fnResult.threw
       /\ fnResult.value.success <=> fnArgs.purchaseToken \in AcceptedTokens
       /\ ~fnResult.value.success
            => fnResult.value.message.id = "SIMULATED_INVALID_TOKEN"
       /\ fnResult.value.is_duplicate = FALSE
       /\ fnResult.value.validated_product_id = fnArgs.productId

\* A token one character short of the long prefix has been rejected.
C9_Witness ==
  /\ SimulatedReturned
  /\ fnArgs.purchaseToken = Str(SubSeq(simulated_purchase_token_, 1, 24))
  /\ ~fnResult.value.success

\* The settlements with a response body whose ret is the number 0.
RetZero ==
  {Resolved(TRUE, Num(<<"0">>), msg) :
     msg \in {Undefined, Str(<<>>), Str(<<"e","x","p","i","r","e","d">>)}}

PicoReturned ==
  fnArgs.fn = "validatePicoPurchase" /\ fnResult.returned

\* C10: validatePicoPurchase never throws and returns success=true exactly
\* when the call completed with a body whose ret is 0; on every path the
\* result has is_duplicate=false, a server_time, and the product_id passed in
\* as validated_product_id.
C10_PicoSuccessIffRetZero ==
  PicoReturned
    => /\ ~fnResult.threw
       /\ fnResult.value.success <=> fnArgs.settle \in RetZero
       /\ fnResult.value.is_duplicate = FALSE
       /\ "server_time" \in DOMAIN fnResult.value
       /\ fnResult.value.server_time = toISOString(fnArgs.t)
       /\ fnResult.value.validated_product_id = fnArgs.productId

\* A body whose ret is the string "0" has been refused.
C10_Witness ==
  /\ PicoReturned
  /\ fnArgs.settle.kind = "resolved" /\ fnArgs.settle.ret = Str(<<"0">>)
  /\ ~fnResult.value.success
  /\ fnResult.value.message.id = "PICO_FAILED"

\* The dedup key of a request that carries its fields.
KeyOf(r) == OrderKey(req[r].body.user_id, req[r].body.purchase_token)

\* In this step invocation r is answered success=true, is_duplicate=false:
\* its validation succeeded and its entry is inserted.
Inserts(r) ==
  /\ pc[r] # "done" /\ pc'[r] = "done"
  /\ res'[r].hasBody /\ res'[r].body.success /\ ~res'[r].body.is_duplicate

\* C11: in the step in which a request's entry is inserted, the sweep removes
\* every entry stamped more than 24 hours before the current time and keeps
\* every entry less than 24 hours old, the inserted one included; no other
\* step removes an entry.
C11_SweepOnInsertOnly ==
  [][ /\ \A r \in Reqs :
           Inserts(r)
             => /\ KeyOf(r) \in DOMAIN orderCache'
                /\ orderCache'[KeyOf(r)].timestamp = now'
                /\ \A k \in DOMAIN orderCache \ {KeyOf(r)} :
                     /\ now' - orderCache[k].timestamp > twentyFourHours
                          => k \notin DOMAIN orderCache'
                     /\ now' - orderCache[k].timestamp < twentyFourHours
                          => k \in DOMAIN orderCache' /\ orderCache'[k] = orderCache[k]
      /\ (\A r \in Reqs : ~Inserts(r))
           => orderCache' = orderCache
    ]_vars

\* An entry has been swept by a later insert, whose own entry is kept.
C11_Witness ==
  \E i \in Reqs : \E j \in Reqs :
    /\ AnsweredFresh(i) /\ AnsweredFresh(j)
    /\ KeyOf(i) \notin DOMAIN orderCache
    /\ KeyOf(j) \in DOMAIN orderCache
    /\ res[j].body.server_time.iso - res[i].body.server_time.iso > twentyFourHours

SameKey(i, j) == HasFields(i) /\ HasFields(j) /\ KeyOf(i) = KeyOf(j)

\* Neither invocation had been answered when the other began.
Overlap(i, j) == i # j /\ i \notin before[j] /\ j \notin before[i]

\* No invocation answered before i or j began had inserted their key.
KeyNotYetInserted(i, j) ==
  \A q \in before[i] \cup before[j] : ~(AnsweredFresh(q) /\ SameKey(q, i))

\* C12: two invocations for the same (user_id, purchase_token) pair, the
\* second begun while the first awaited its validator, both get past the
\* duplicate check and both run a validator; when both validations succeed
\* both are answered success=true, is_duplicate=false.
C12_RacingPairBothFresh ==
  \A i \in Reqs : \A j \in Reqs :
    (Overlap(i, j) /\ Complete(i) /\ Complete(j) /\ SamePair(i, j)
       /\ KeyNotYetInserted(i, j))
      => /\ calls[i].pico + calls[i].simulated = 1
         /\ calls[j].pico + calls[j].simulated = 1
         /\ (Succeeded(i) /\ Succeeded(j)) => (AnsweredFresh(i) /\ AnsweredFresh(j))

\* The race has happened: both invocations of one pair were answered as the
\* first validation of it.
C12_Witness ==
  \E i \in Reqs : \E j \in Reqs :
    /\ Overlap(i, j) /\ SamePair(i, j)
    /\ AnsweredFresh(i) /\ AnsweredFresh(j)
    /\ calls[i].set = 1 /\ calls[j].set = 1

\* C13: once a key is in the cache its stored value (product_id, user_id,
\* timestamp) never changes for as long as the key stays in the cache.
C13_EntriesWriteOnce ==
  [][ \A k \in DOMAIN orderCache :
        k \in DOMAIN orderCache' => orderCache'[k] = orderCache[k]
    ]_vars

\* When the entry of a freshly answered invocation was inserted.
InsertedAt(i) == res[i].body.server_time.iso

\* Among the invocations of S, one has inserted (and so swept) more than 24
\* hours after i inserted.
SweptSince(i, S) ==
  \E q \in S : AnsweredFresh(q) /\ InsertedAt(q) - InsertedAt(i) > twentyFourHours

\* C14: the key is in the cache as soon as the success response has been
\* sent, so every request for the same pair that begins after that response
\* and reaches the duplicate check (a POST carrying all three fields) is
\* answered is_duplicate=true, unless a sweep has evicted the entry.
C14_InsertedBeforeAnswered ==
  /\ \A i \in Reqs :
       (AnsweredFresh(i) /\ ~SweptSince(i, Reqs))
         => CacheHas(orderCache, KeyOf(i))
  /\ \A i \in Reqs : \A j \in Reqs :
       (AnsweredFresh(i) /\ Complete(j) /\ i \in before[j] /\ SamePair(i, j)
          /\ ~SweptSince(i, before[j]))
         => AnsweredDuplicate(j)

\* A request begun after the success response of its pair was answered as a
\* duplicate.
C14_Witness ==
  \E i \in Reqs : \E j \in Reqs :
    /\ AnsweredFresh(i) /\ i \in before[j] /\ SamePair(i, j)
    /\ AnsweredDuplicate(j)
    /\ res[j].body.request_id.time > InsertedAt(i)

\* In this step POST invocation r is answered success=false: its validator
\* refused or failed, or a fault reached the catch block.
Fails(r) ==
  /\ pc[r] # "done" /\ pc'[r] = "done"
  /\ req'[r].method = "POST"
  /\ res'[r].hasBody /\ ~res'[r].body.success

Failed(r) == IsPost(r) /\ Answered(r) /\ ~res[r].body.success

\* An invocation answered before j began had inserted j's key.
KeyInsertedBefore(j) ==
  \E q \in before[j] : AnsweredFresh(q) /\ SameKey(q, j)

C15_FailureLeavesNoTrace ==
  /\ \A j \in Reqs : AnsweredDuplicate(j) => KeyInsertedBefore(j)
  /\ \A i \in Reqs : \A j \in Reqs :
       (Failed(i) /\ i \in before[j] /\ Complete(j) /\ SamePair(i, j)
          /\ ~KeyInsertedBefore(j))
         => /\ calls[j].pico + calls[j].simulated = 1
            /\ ~AnsweredDuplicate(j)

\* C15: the step that answers a request success=false (its validator refused
\* or failed, or a fault was caught) leaves the cache as it was, with no
\* insert and no sweep; so a later request for the same pair is a duplicate
\* only if a successful validation inserted its key, and otherwise runs a
\* validator again.
C15_FailedRequestsLeaveCache ==
  /\ []C15_FailureLeavesNoTrace
  /\ [][ \A r \in Reqs :
           Fails(r) => /\ orderCache' = orderCache
                       /\ calls'[r].set = 0 /\ calls'[r].sweep = 0
       ]_vars

\* After a refused token, a timeout and a caught fault, the same pair was
\* submitted again and validated again.
C15_Witness ==
  \E i \in Reqs : \E j \in Reqs :
    /\ Failed(i) /\ calls[i].pico + calls[i].simulated = 1
    /\ i \in before[j] /\ SamePair(i, j)
    /\ calls[j].pico + calls[j].simulated = 1
    /\ AnsweredFresh(j)

\* In this step invocation r begins, a POST carrying all three fields.
BeginsComplete(r) ==
  /\ pc[r] = "idle" /\ pc'[r] # "idle"
  /\ req'[r].method = "POST" /\ req'[r].body.t = "object"
  /\ Truthy(req'[r].body.product_id)
  /\ Truthy(req'[r].body.purchase_token)
  /\ Truthy(req'[r].body.user_id)

ArrivingKey(r) == OrderKey(req'[r].body.user_id, req'[r].body.purchase_token)

\* C16: a POST request whose key is in the cache when it is checked is
\* answered at once success=true, is_duplicate=true, with no validator run
\* and no outbound call whatever its platform, and the cache stays as it was:
\* no timestamp refreshed, no sweep.
C16_DuplicateShortCircuit ==
  [][ \A r \in Reqs :
        (BeginsComplete(r) /\ ArrivingKey(r) \in DOMAIN orderCache)
          => /\ pc'[r] = "done"
             /\ res'[r].sent = 1 /\ res'[r].hasBody
             /\ res'[r].body.success /\ res'[r].body.is_duplicate
             /\ res'[r].body.message.id = "DUPLICATE_ORDER"
             /\ calls'[r].pico = 0 /\ calls'[r].simulated = 0 /\ calls'[r].outbound = 0
             /\ calls'[r].set = 0 /\ calls'[r].sweep = 0
             /\ orderCache' = orderCache
    ]_vars

\* A duplicate was answered for platform "pico" while the entry of its key
\* was past 24 hours and still in the cache afterwards.
C16_Witness ==
  \E j \in Reqs :
    /\ AnsweredDuplicate(j) /\ req[j].body.platform = Str(pico)
    /\ calls[j].outbound = 0
    /\ KeyOf(j) \in DOMAIN orderCache
    /\ res[j].body.server_time.iso - orderCache[KeyOf(j)].timestamp > twentyFourHours

\* C17: every invocation sends exactly one response. Given that the outbound
\* call settles and the simulated delay elapses, an invocation that began is
\* eventually finished with one response sent, whatever the other invocations
\* do meanwhile; none finishes with no response, and none ever sends two.
C17_ExactlyOneResponse ==
  \A r \in Reqs :
    /\ [](res[r].sent <= 1)
    /\ [](Done(r) => res[r].sent = 1)
    /\ (pc[r] # "idle") ~> (Done(r) /\ res[r].sent = 1)

\* Two invocations overlapped, one awaiting the outbound call and one the
\* simulated delay whose validator threw, and both were answered once.
C17_Witness ==
  \E i \in Reqs, j \in Reqs :
    /\ Overlap(i, j) /\ Done(i) /\ Done(j)
    /\ calls[i].outbound = 1 /\ res[i].sent = 1
    /\ Faulted(j) /\ calls[j].simulated = 1 /\ res[j].sent = 1

\* validatePicoPurchase has returned from a call whose axios.post rejected.
PicoFaultReturned == PicoReturned /\ fnArgs.settle.kind = "rejected"

\* C18: a fault of the outbound call is classified by fixed priority: code
\* ECONNABORTED gives the timeout message even when the fault carries a
\* response; otherwise a fault with a response gives the server-error message
\* with that response's status; otherwise the unavailable message. Each fault
\* gives exactly one of the three, with success=false.
C18_FaultPriority ==
  PicoFaultReturned
    => LET fault == fnArgs.settle
           message == fnResult.value.message
       IN  /\ ~fnResult.threw
           /\ fnResult.value.success = FALSE
           /\ message.id \in {"PICO_TIMEOUT", "PICO_SERVER_ERROR", "PICO_UNAVAILABLE"}
           /\ message.id = "PICO_TIMEOUT" <=> fault.code = ECONNABORTED
           /\ message.id = "PICO_SERVER_ERROR"
                <=> (fault.code # ECONNABORTED /\ fault.hasResponse)
           /\ message.id = "PICO_SERVER_ERROR" => message.detail = fault.status
           /\ message.id = "PICO_UNAVAILABLE"
                <=> (fault.code # ECONNABORTED /\ ~fault.hasResponse)

\* A fault with code ECONNABORTED and a response of status 500 was reported
\* as a timeout.
C18_Witness ==
  /\ PicoFaultReturned
  /\ fnArgs.settle.code = ECONNABORTED /\ fnArgs.settle.hasResponse
  /\ fnArgs.settle.status = Num(<<"5","0","0">>)
  /\ fnResult.value.message.id = "PICO_TIMEOUT"
  /\ ~fnResult.value.success

\* When invocation r began, as its request id records it.
BeganAt(r) == res[r].body.request_id.time

\* Invocation j, answered, reached the duplicate check more than 24 hours
\* after invocation i had inserted the key they share.
StaleFor(i, j) ==
  /\ AnsweredFresh(i) /\ i \in before[j] /\ SameKey(i, j)
  /\ Complete(j) /\ Done(j)
  /\ BeganAt(j) - InsertedAt(i) > twentyFourHours

\* C19: the duplicate check does not look at the age of an entry. A request
\* for a key whose entry is older than 24 hours and has not been swept (no
\* insert since it expired) is answered is_duplicate=true; the key is
\* validated afresh only when another request's insert has swept the entry
\* in between.
C19_StaleEntryStillDuplicate ==
  \A i \in Reqs : \A j \in Reqs :
    StaleFor(i, j)
      => /\ ~SweptSince(i, before[j]) => AnsweredDuplicate(j)
         /\ ~res[j].body.is_duplicate
              => \E q \in before[j] \ {i, j} :
                   /\ calls[q].set = 1 /\ calls[q].sweep = 1
                   /\ InsertedAt(q) - InsertedAt(i) > twentyFourHours

\* A request was answered as a duplicate on an entry older than 24 hours.
C19_Witness ==
  \E i \in Reqs : \E j \in Reqs :
    /\ StaleFor(i, j) /\ AnsweredDuplicate(j)
    /\ KeyOf(j) \in DOMAIN orderCache
    /\ BeganAt(j) - orderCache[KeyOf(j)].timestamp > twentyFourHours
    /\ calls[j].simulated = 0 /\ calls[j].pico = 0

\* cleanupOldOrders has returned; fnArgs holds the cache it found and the
\* time it ran at.
Swept == fnArgs.fn = "cleanupOldOrders" /\ fnResult.returned
AgeAt(entry, t) == t - entry.timestamp

\* C20: right after cleanupOldOrders returns at time now, orderCache holds
\* exactly the entries it held before with now - timestamp <= 86,400,000 ms:
\* an entry aged exactly 24 hours stays, one aged 24 hours and 1 ms goes, and
\* no entry that stays is changed.
C20_SweepBoundary ==
  Swept
    => LET found == fnArgs.cache
       IN  /\ DOMAIN orderCache =
                {k \in DOMAIN found : AgeAt(found[k], fnArgs.t) <= 86400000}
           /\ \A k \in DOMAIN orderCache : orderCache[k] = found[k]
           /\ \A k \in DOMAIN found :
                /\ AgeAt(found[k], fnArgs.t) = 86400000 => k \in DOMAIN orderCache
                /\ AgeAt(found[k], fnArgs.t) = 86400001 => k \notin DOMAIN orderCache

\* One sweep found an entry aged exactly 24 hours and one aged 24 hours and
\* 1 ms, kept the first and removed the second.
C20_Witness ==
  /\ Swept
  /\ \E k \in DOMAIN fnArgs.cache :
       AgeAt(fnArgs.cache[k], fnArgs.t) = 86400000 /\ k \in DOMAIN orderCache
  /\ \E k \in DOMAIN fnArgs.cache :
       AgeAt(fnArgs.cache[k], fnArgs.t) = 86400001 /\ k \notin DOMAIN orderCache

====
